---------------------------- MODULE Spec2Model ----------------------------
(***************************************************************************)
(* TrigExplorer: the ferris wheel (angle, drag state, degree entry) and    *)
(* the function plotter (wave parameters, sampled data, axis labels),      *)
(* mounted one at a time by App.                                           *)
(*                                                                         *)
(* Number representations                                                  *)
(*   - a parsed decimal (degree entry, A, omega, phi, k) is an integer     *)
(*     count of thousandths (Scale);                                       *)
(*   - an angle is an integer count of PI/180000, so that the quadrant     *)
(*     boundaries PI/2, PI, 3PI/2, 2PI are exact and deg * PI / 180 is     *)
(*     exact for a degree value with three decimals;                       *)
(*   - Math.sin and Math.cos values are integers in units of 10^-8, from   *)
(*     a table of the library's values;                                    *)
(*   - the abscissas of the sampling loop are IEEE-754 doubles, held       *)
(*     exactly as signed multiples of 2^-56 in three limbs, because the    *)
(*     loop accumulates rounding and its exit test compares doubles;       *)
(*   - an axis tick is an integer count of PI/1024 (a binary fraction of   *)
(*     PI, as ticks are doubles).                                          *)
(***************************************************************************)
EXTENDS Integers, Sequences, FiniteSets, TLC

VARIABLES
    activeTab,   \* App: the tab shown
    angle,       \* FerrisWheel: the angle
    isDragging,  \* FerrisWheel: a drag is in progress
    params,      \* FunctionPlotter: A, omega, phi, k
    lastEvent,   \* the handler that ran last, and its input
    x,           \* the sampling loop: its variable
    points,      \* the sampling loop: the points pushed so far
    pc,          \* the sampling loop: "idle", "loop" or "done"
    tick,        \* the axis: a tick value
    tickLabel    \* the axis: the label made for tick, "" before

vars == <<activeTab, angle, isDragging, params, lastEvent, x, points, pc,
          tick, tickLabel>>

\* the variables of the three parts
uiVars == <<activeTab, angle, isDragging, params, lastEvent>>

loopVars == <<x, points, pc>>

axisVars == <<tick, tickLabel>>

---------------------------------------------------------------------------
(* Bounds of the model. *)

\* pointer positions are taken within MaxOffset pixels of the wheel centre
MaxOffset == 3

\* axis ticks are taken within MaxTick / 1024 of zero, in units of PI
MaxTick == 3200
MaxTurns == 1

---------------------------------------------------------------------------
(* Fixed-point units. *)

\* thousandths: the unit of a parsed decimal number
Scale == 1000

\* Math.PI in angle units
PI == 180000

TWO_PI == 2 * PI

\* 10^-8: the unit of a sine or cosine value
TrigScale == 100000000

Abs(n) == IF n < 0 THEN -n ELSE n

Sign(n) == IF n < 0 THEN -1 ELSE 1

\* the % operator of the language: the remainder takes the sign of the dividend
JsRem(a, m) == IF a >= 0 THEN a % m ELSE -((-a) % m)

\* Math.round: the nearest integer, a tie going towards +Infinity;
\* n / d is the exact argument, d > 0
MathRound(n, d) == (2 * n + d) \div (2 * d)

\* Number.prototype.toFixed rounding: n / d to the nearest integer, a tie going
\* away from zero (the sign is split off first, and the larger magnitude wins)
ToFixedRound(n, d) == Sign(n) * ((2 * Abs(n) + d) \div (2 * d))

---------------------------------------------------------------------------
(* parseFloat on the text of an input element.  A text is a sequence of    *)
(* characters.  The longest prefix that is a decimal literal (optional     *)
(* sign, digits, optional fraction) is converted; no such prefix gives     *)
(* NaN.  Fraction digits beyond the third are dropped.                     *)

NaN == [nan |-> TRUE, val |-> 0]

Num(v) == [nan |-> FALSE, val |-> v]

isNaN(v) == v.nan

DigitChars == {"0", "1", "2", "3", "4", "5", "6", "7", "8", "9"}

DigitVal(c) ==
    CASE c = "0" -> 0 [] c = "1" -> 1 [] c = "2" -> 2 [] c = "3" -> 3
      [] c = "4" -> 4 [] c = "5" -> 5 [] c = "6" -> 6 [] c = "7" -> 7
      [] c = "8" -> 8 [] c = "9" -> 9

\* the length of the run of digits of text starting at position i
RECURSIVE DigitRun(_, _)
DigitRun(text, i) ==
    IF i <= Len(text) /\ text[i] \in DigitChars
    THEN 1 + DigitRun(text, i + 1)
    ELSE 0

\* the value of the n digits of text starting at position i
RECURSIVE DigitsValue(_, _, _)
DigitsValue(text, i, n) ==
    IF n = 0 THEN 0
    ELSE 10 * DigitsValue(text, i, n - 1) + DigitVal(text[i + n - 1])

\* the first three fraction digits starting at position i, as thousandths
FractionValue(text, i, n) ==
    LET d(k) == IF k <= n THEN DigitVal(text[i + k - 1]) ELSE 0
    IN  100 * d(1) + 10 * d(2) + d(3)

parseFloat(text) ==
    LET negative == Len(text) >= 1 /\ text[1] = "-"
        signed   == Len(text) >= 1 /\ text[1] \in {"-", "+"}
        start    == IF signed THEN 2 ELSE 1
        nInt     == DigitRun(text, start)
        dot      == start + nInt
        hasDot   == dot <= Len(text) /\ text[dot] = "."
        nFrac    == IF hasDot THEN DigitRun(text, dot + 1) ELSE 0
        mag      == Scale * DigitsValue(text, start, nInt)
                      + FractionValue(text, dot + 1, nFrac)
    IN  IF nInt + nFrac = 0 THEN NaN
        ELSE Num(IF negative THEN -mag ELSE mag)

---------------------------------------------------------------------------
(* Math.sin, Math.cos and Math.atan2.                                      *)

\* Math.sin on the first quarter turn, in units of 10^-8, at every multiple
\* of PI / 1000 (the phases of the sampled wave): entry j + 1 is
\* sin(j * PI / 1000)
SinStep == PI \div 1000

SinByStep ==
    << 0, 314159, 628314, 942464, 1256604, 1570732, 1884844, 2198938,
       2513010, 2827057, 3141076, 3455064, 3769018, 4082935, 4396812, 4710645,
       5024432, 5338169, 5651853, 5965482, 6279052, 6592560, 6906003, 7219377,
       7532681, 7845910, 8159061, 8472132, 8785120, 9098020, 9410831, 9723549,
       10036171, 10348695, 10661115, 10973431, 11285638, 11597734, 11909716, 12221580,
       12533323, 12844943, 13156436, 13467799, 13779029, 14090123, 14401078, 14711891,
       15022559, 15333078, 15643447, 15953660, 16263717, 16573612, 16883344, 17192910,
       17502306, 17811529, 18120576, 18429445, 18738131, 19046633, 19354947, 19663069,
       19970998, 20278730, 20586261, 20893589, 21200711, 21507624, 21814324, 22120809,
       22427076, 22733122, 23038943, 23344536, 23649900, 23955030, 24259923, 24564577,
       24868989, 25173155, 25477073, 25780739, 26084151, 26387305, 26690199, 26992829,
       27295194, 27597288, 27899111, 28200658, 28501926, 28802914, 29103617, 29404033,
       29704158, 30003991, 30303527, 30602764, 30901699, 31200330, 31498652, 31796663,
       32094361, 32391742, 32688803, 32985541, 33281954, 33578039, 33873792, 34169211,
       34464292, 34759034, 35053432, 35347484, 35641188, 35934540, 36227537, 36520176,
       36812455, 37104371, 37395921, 37687101, 37977910, 38268343, 38558399, 38848075,
       39137367, 39426272, 39714789, 40002914, 40290644, 40577976, 40864907, 41151436,
       41437558, 41723271, 42008573, 42293460, 42577929, 42861978, 43145605, 43428805,
       43711577, 43993917, 44275823, 44557292, 44838322, 45118908, 45399050, 45678743,
       45957986, 46236775, 46515108, 46792981, 47070393, 47347340, 47623820, 47899830,
       48175367, 48450429, 48725013, 48999115, 49272734, 49545867, 49818511, 50090663,
       50362320, 50633481, 50904142, 51174300, 51443953, 51713099, 51981734, 52249856,
       52517463, 52784551, 53051118, 53317162, 53582679, 53847668, 54112125, 54376048,
       54639435, 54902282, 55164587, 55426348, 55687562, 55948226, 56208338, 56467895,
       56726895, 56985335, 57243213, 57500525, 57757270, 58013445, 58269048, 58524075,
       58778525, 59032395, 59285682, 59538384, 59790498, 60042023, 60292954, 60543291,
       60793030, 61042169, 61290705, 61538637, 61785961, 62032676, 62278778, 62524266,
       62769136, 63013387, 63257016, 63500021, 63742399, 63984148, 64225265, 64465749,
       64705596, 64944805, 65183373, 65421297, 65658576, 65895206, 66131187, 66366514,
       66601187, 66835202, 67068558, 67301251, 67533281, 67764644, 67995338, 68225361,
       68454711, 68683385, 68911381, 69138697, 69365331, 69591280, 69816542, 70041115,
       70264997, 70488185, 70710678, 70932473, 71153568, 71373960, 71593648, 71812630,
       72030902, 72248464, 72465313, 72681447, 72896863, 73111559, 73325535, 73538786,
       73751312, 73963109, 74174177, 74384513, 74594115, 74802980, 75011107, 75218494,
       75425138, 75631038, 75836192, 76040597, 76244251, 76447153, 76649301, 76850692,
       77051324, 77251196, 77450306, 77648651, 77846230, 78043041, 78239081, 78434349,
       78628843, 78822561, 79015501, 79207661, 79399040, 79589635, 79779444, 79968466,
       80156698, 80344140, 80530789, 80716642, 80901699, 81085958, 81269416, 81452073,
       81633925, 81814972, 81995211, 82174641, 82353260, 82531066, 82708057, 82884233,
       83059590, 83234127, 83407843, 83580736, 83752804, 83924045, 84094458, 84264041,
       84432793, 84600711, 84767794, 84934040, 85099448, 85264016, 85427743, 85590627,
       85752666, 85913858, 86074203, 86233698, 86392342, 86550133, 86707070, 86863151,
       87018375, 87172741, 87326245, 87478888, 87630668, 87781583, 87931631, 88080811,
       88229123, 88376563, 88523131, 88668826, 88813645, 88957588, 89100652, 89242838,
       89384142, 89524565, 89664104, 89802758, 89940525, 90077405, 90213396, 90348496,
       90482705, 90616021, 90748442, 90879968, 91010597, 91140328, 91269159, 91397089,
       91524117, 91650242, 91775463, 91899777, 92023185, 92145684, 92267274, 92387953,
       92507721, 92626575, 92744515, 92861540, 92977649, 93092839, 93207111, 93320463,
       93432894, 93544403, 93654989, 93764650, 93873386, 93981195, 94088077, 94194030,
       94299054, 94403146, 94506308, 94608536, 94709830, 94810190, 94909614, 95008102,
       95105652, 95202263, 95297934, 95392665, 95486454, 95579301, 95671205, 95762165,
       95852179, 95941247, 96029369, 96116542, 96202767, 96288043, 96372368, 96455742,
       96538164, 96619633, 96700149, 96779710, 96858316, 96935966, 97012660, 97088396,
       97163173, 97236992, 97309851, 97381750, 97452687, 97522663, 97591676, 97659726,
       97726812, 97792934, 97858090, 97922281, 97985505, 98047762, 98109052, 98169373,
       98228725, 98287108, 98344520, 98400963, 98456433, 98510933, 98564460, 98617014,
       98668594, 98719201, 98768834, 98817492, 98865174, 98911881, 98957612, 99002366,
       99046143, 99088942, 99130763, 99171606, 99211470, 99250355, 99288260, 99325186,
       99361131, 99396096, 99430079, 99463081, 99495102, 99526140, 99556196, 99585270,
       99613361, 99640469, 99666593, 99691733, 99715890, 99739063, 99761251, 99782454,
       99802673, 99821907, 99840155, 99857418, 99873696, 99888987, 99903293, 99916613,
       99928947, 99940295, 99950656, 99960031, 99968419, 99975820, 99982235, 99987663,
       99992104, 99995559, 99998026, 99999507, 100000000 >>

\* Math.sin on the first quarter turn at the other angles that the pointer
\* positions and the degree entries of the model produce
SinExtra ==
       10 :> 17453 @@ 40 :> 69813 @@ 50 :> 87266 @@ 60 :> 104720
    @@ 11310 :> 19611729 @@ 14036 :> 24253150 @@ 18435 :> 31622861 @@ 21801 :> 37138404
    @@ 26565 :> 44721280 @@ 26570 :> 44729085 @@ 30000 :> 50000000 @@ 30964 :> 51449940
    @@ 33690 :> 55469922 @@ 36870 :> 60000143 @@ 38660 :> 62469766 @@ 51340 :> 78086672
    @@ 53130 :> 79999893 @@ 56310 :> 83205095 @@ 59036 :> 85749074 @@ 60000 :> 86602540
    @@ 63430 :> 89438856 @@ 63435 :> 89442759 @@ 68199 :> 92847935 @@ 71565 :> 94868302
    @@ 75964 :> 97014353 @@ 78690 :> 98058044 @@ 89940 :> 99999945 @@ 89950 :> 99999962
    @@ 89960 :> 99999976 @@ 89990 :> 99999998

QuarterSin(m) ==
    IF m % SinStep = 0 THEN SinByStep[m \div SinStep + 1] ELSE SinExtra[m]

\* the folding of an angle into the first quarter turn, with the sign of its sine
MathSin(a) ==
    LET m == a % TWO_PI
    IN  IF m <= PI \div 2 THEN QuarterSin(m)
        ELSE IF m <= PI THEN QuarterSin(PI - m)
        ELSE IF m <= (3 * PI) \div 2 THEN -QuarterSin(m - PI)
        ELSE -QuarterSin(TWO_PI - m)

MathCos(a) == MathSin(a + PI \div 2)

\* the arctangent of p / q for 1 <= p <= q, in angle units
AtanRatio ==
   <<1, 1>> :> 45000 @@ <<1, 2>> :> 26565 @@ <<1, 3>> :> 18435 @@ <<1, 4>> :> 14036 @@ <<1, 5>> :> 11310 @@ <<2, 2>> :> 45000 @@ <<2, 3>> :> 33690 @@ <<2, 4>> :> 26565 @@ <<2, 5>> :> 21801 @@ <<3, 3>> :> 45000 @@ <<3, 4>> :> 36870 @@ <<3, 5>> :> 30964 @@ <<4, 4>> :> 45000 @@ <<4, 5>> :> 38660 @@ <<5, 5>> :> 45000

\* Math.atan2(y, x) for integer y and x, in (-PI, PI]; atan2(0, 0) is 0
MathAtan2(dy, dx) ==
    LET ay == Abs(dy)
        ax == Abs(dx)
        acute == IF ay <= ax THEN AtanRatio[<<ay, ax>>]
                 ELSE PI \div 2 - AtanRatio[<<ax, ay>>]
    IN  IF dy = 0 THEN (IF dx >= 0 THEN 0 ELSE PI)
        ELSE IF dx = 0 THEN (IF dy > 0 THEN PI \div 2 ELSE -(PI \div 2))
        ELSE IF dx > 0 THEN (IF dy > 0 THEN acute ELSE -acute)
        ELSE (IF dy > 0 THEN PI - acute ELSE -(PI - acute))

---------------------------------------------------------------------------
(* IEEE-754 binary64 arithmetic on the values of the sampling loop.  A     *)
(* double is [neg, mag] with mag a natural number of units of 2^-56, held  *)
(* as the limbs <<a, b, c>> = a * 2^40 + b * 2^20 + c.  Every value of the *)
(* loop is such a multiple: 4 PI / 200 has its last bit at 2^-56, and a    *)
(* sum of multiples that is smaller than 2^-3 is exact.                    *)

Limb == 2^20

Normal(a, b, c) ==
    LET c1 == c % Limb
        b0 == b + c \div Limb
        b1 == b0 % Limb
    IN  <<a + b0 \div Limb, b1, c1>>

NatAdd(m, n) == Normal(m[1] + n[1], m[2] + n[2], m[3] + n[3])

NatLess(m, n) ==
    \/ m[1] < n[1]
    \/ m[1] = n[1] /\ m[2] < n[2]
    \/ m[1] = n[1] /\ m[2] = n[2] /\ m[3] < n[3]

\* m - n for m >= n
NatSub(m, n) ==
    LET c0 == m[3] - n[3]
        bc == IF c0 < 0 THEN 1 ELSE 0
        b0 == m[2] - n[2] - bc
        bb == IF b0 < 0 THEN 1 ELSE 0
    IN  <<m[1] - n[1] - bb, b0 + bb * Limb, c0 + bc * Limb>>

\* the quotient and the remainder of m by a small divisor
NatDivSmall(m, d) ==
    LET qa == m[1] \div d
        ra == m[1] % d
        qb == (ra * Limb + m[2]) \div d
        rb == (ra * Limb + m[2]) % d
        qc == (rb * Limb + m[3]) \div d
        rc == (rb * Limb + m[3]) % d
    IN  [quot |-> <<qa, qb, qc>>, rem |-> rc]

\* the number of bits of n
RECURSIVE BitLen(_)
BitLen(n) == IF n = 0 THEN 0 ELSE 1 + BitLen(n \div 2)

NatBitLen(m) ==
    IF m[1] > 0 THEN 40 + BitLen(m[1])
    ELSE IF m[2] > 0 THEN 20 + BitLen(m[2])
    ELSE BitLen(m[3])

\* m with its q low bits (1 <= q < 20) rounded away, to nearest, a tie to even;
\* sticky: bits below m were already dropped
RoundNearestEven(m, q, sticky) ==
    LET unit == 2^q
        r    == m[3] % unit
        down == m[3] - r
        odd  == (down \div unit) % 2 = 1
        up   == \/ 2 * r > unit
                \/ 2 * r = unit /\ (sticky \/ odd)
    IN  Normal(m[1], m[2], IF up THEN down + unit ELSE down)

\* a magnitude as the nearest double: 53 significant bits
RoundTo53(m) ==
    IF NatBitLen(m) <= 53 THEN m
    ELSE RoundNearestEven(m, NatBitLen(m) - 53, FALSE)

Zero == <<0, 0, 0>>

FNeg(u) == [neg |-> ~u.neg /\ u.mag # Zero, mag |-> u.mag]

\* u + v, correctly rounded
FAdd(u, v) ==
    IF u.neg = v.neg
    THEN [neg |-> u.neg, mag |-> RoundTo53(NatAdd(u.mag, v.mag))]
    ELSE IF NatLess(u.mag, v.mag)
    THEN [neg |-> v.neg, mag |-> RoundTo53(NatSub(v.mag, u.mag))]
    ELSE [neg |-> u.neg /\ u.mag # v.mag, mag |-> RoundTo53(NatSub(u.mag, v.mag))]

FSub(u, v) == FAdd(u, FNeg(v))

\* u / d for a small positive integer d, correctly rounded; the quotient is
\* taken with one guard bit, and has more than 53 bits with it
FDivSmall(u, d) ==
    LET qr   == NatDivSmall(NatAdd(u.mag, u.mag), d)
        bits == NatBitLen(qr.quot)
        r    == CASE bits > 53 ->
                    RoundNearestEven(qr.quot, bits - 53, qr.rem # 0)
    IN  [neg |-> u.neg, mag |-> NatDivSmall(r, 2).quot]

\* u <= v
FLeq(u, v) ==
    IF u.neg /\ ~v.neg THEN TRUE
    ELSE IF ~u.neg /\ v.neg THEN FALSE
    ELSE IF u.neg THEN ~NatLess(u.mag, v.mag)
    ELSE ~NatLess(v.mag, u.mag)

\* Math.PI = 0x1.921fb54442d18p+1
MathPI == [neg |-> FALSE, mag |-> <<205887, 436360, 369408>>]

\* 2 * Math.PI: a doubling is exact
TwoMathPI == FAdd(MathPI, MathPI)

---------------------------------------------------------------------------
(* Number.prototype.toFixed and the decimal text of a natural number.      *)

\* floor(n * 10^k / d) and what is left, for n >= 0 and d > 0, by long division
RECURSIVE ScaledQuotient(_, _, _)
ScaledQuotient(n, d, k) ==
    IF k = 0 THEN [q |-> n \div d, r |-> n % d]
    ELSE LET p == ScaledQuotient(n, d, k - 1)
         IN  [q |-> 10 * p.q + (10 * p.r) \div d, r |-> (10 * p.r) % d]

\* (n / d).toFixed(k) as a count of 10^-k: to nearest, a tie away from zero
ToFixed(n, d, k) ==
    LET p == ScaledQuotient(Abs(n), Abs(d), k)
        m == p.q + (IF 2 * p.r >= Abs(d) THEN 1 ELSE 0)
    IN  Sign(n) * Sign(d) * m

DigitStr(n) ==
    CASE n = 0 -> "0" [] n = 1 -> "1" [] n = 2 -> "2" [] n = 3 -> "3"
      [] n = 4 -> "4" [] n = 5 -> "5" [] n = 6 -> "6" [] n = 7 -> "7"
      [] n = 8 -> "8" [] n = 9 -> "9"

RECURSIVE NatStr(_)
NatStr(n) == IF n < 10 THEN DigitStr(n) ELSE NatStr(n \div 10) \o DigitStr(n % 10)

---------------------------------------------------------------------------
(* FerrisWheel.                                                            *)

FERRIS_WHEEL == "FERRIS_WHEEL"

FUNCTION_PLOTTER == "FUNCTION_PLOTTER"

CENTER == [x |-> 250, y |-> 250]

\* svgRef.current.getBoundingClientRect(): where the layout puts the drawing
rect == [left |-> 40, top |-> 60]

\* useState(Math.PI / 6)
InitialAngle == PI \div 6

\* the pointer positions of the model: whole pixels around the centre
ClientXs == (rect.left + CENTER.x - MaxOffset) .. (rect.left + CENTER.x + MaxOffset)

ClientYs == (rect.top + CENTER.y - MaxOffset) .. (rect.top + CENTER.y + MaxOffset)

\* updateAngle without the normalisation of a negative arctangent
angleFromPointerRaw(clientX, clientY) ==
    LET dx == clientX - rect.left - CENTER.x
        dy == rect.top + CENTER.y - clientY
    IN  MathAtan2(dy, dx)

\* updateAngle without the inversion of the screen's vertical axis
angleFromPointerScreen(clientX, clientY) ==
    LET dx == clientX - rect.left - CENTER.x
        dy == clientY - rect.top - CENTER.y
        newAngle == MathAtan2(dy, dx)
    IN  IF newAngle < 0 THEN newAngle + 2 * PI ELSE newAngle

\* the new angle of updateAngle
angleFromPointer(clientX, clientY) ==
    LET dx == clientX - rect.left - CENTER.x
        dy == rect.top + CENTER.y - clientY
        newAngle == MathAtan2(dy, dx)
    IN  IF newAngle < 0 THEN newAngle + 2 * PI ELSE newAngle

updateAngle(clientX, clientY) == angle' = angleFromPointer(clientX, clientY)

\* (val * Math.PI) / 180 with val in thousandths of a degree
angleFromDegrees(val) == (val * (PI \div 180)) \div Scale

\* the degrees rounded to whole degrees
displayDegreesWhole(a) == Scale * MathRound(a, PI \div 180)

\* Math.round((angle * 180 / Math.PI) * 10) / 10, in thousandths of a degree
displayDegrees(a) == (Scale \div 10) * MathRound(18 * a, PI \div 100)

\* the texts typed into the degree field
DegreeTexts ==
    { <<>>, <<"-">>, <<"0">>, <<"9", "0">>, <<"1", "8", "0">>,
      <<"2", "7", "0">>, <<"3", "6", "0">>, <<"4", "5", "0">>,
      <<"-", "9", "0">>, <<"-", "2", "7", "0">>, <<"8", "1", "0">>,
      <<"8", "9", ".", "9", "5">>, <<"8", "9", ".", "9", "4">>,
      <<"2", "6", ".", "5", "7">>, <<"-", "0", ".", "0", "4">>,
      <<"7", "1", "9", ".", "9", "9">> }

\* the classification without the shift of a negative remainder
getQuadrantColorNoShift(a) ==
    LET normalized == JsRem(a, 2 * PI)
    IN  IF normalized < PI \div 2 THEN "text-emerald-600"
        ELSE IF normalized < PI THEN "text-blue-600"
        ELSE IF normalized < (3 * PI) \div 2 THEN "text-orange-600"
        ELSE "text-rose-600"

getQuadrantColor(a) ==
    LET normalized == JsRem(a, 2 * PI)
        positiveAngle == IF normalized < 0 THEN normalized + 2 * PI ELSE normalized
    IN  IF positiveAngle < PI \div 2 THEN "text-emerald-600"
        ELSE IF positiveAngle < PI THEN "text-blue-600"
        ELSE IF positiveAngle < (3 * PI) \div 2 THEN "text-orange-600"
        ELSE "text-rose-600"

rawCos(a) == MathCos(a)

rawSin(a) == MathSin(a)

\* the tan cell with the threshold on the cosine itself, not its magnitude
tanCellSigned(a) ==
    IF rawCos(a) < TrigScale \div 1000
    THEN [kind |-> "infinity"]
    ELSE [kind |-> "number", val |-> ToFixed(rawSin(a), rawCos(a), 4)]

\* the tan cell: the infinity symbol (written "infinity"), or
\* (rawSin / rawCos).toFixed(4) in ten-thousandths
tanCell(a) ==
    IF Abs(rawCos(a)) < TrigScale \div 1000
    THEN [kind |-> "infinity"]
    ELSE [kind |-> "number", val |-> ToFixed(rawSin(a), rawCos(a), 4)]

Event(op, arg) == [op |-> op, arg |-> arg]

WheelMounted == activeTab = FERRIS_WHEEL

handleMouseDown ==
    /\ WheelMounted
    /\ isDragging' = TRUE
    /\ lastEvent' = Event("mousedown", <<>>)
    /\ UNCHANGED <<activeTab, angle, params, loopVars, axisVars>>

handleTouchStart ==
    /\ WheelMounted
    /\ isDragging' = TRUE
    /\ lastEvent' = Event("touchstart", <<>>)
    /\ UNCHANGED <<activeTab, angle, params, loopVars, axisVars>>

\* a mouse move that updates the angle whether or not a drag is in progress
handleMouseMoveAlways(clientX, clientY) ==
    /\ WheelMounted
    /\ updateAngle(clientX, clientY)
    /\ lastEvent' = Event("mousemove", <<clientX, clientY>>)
    /\ UNCHANGED <<activeTab, isDragging, params, loopVars, axisVars>>

handleMouseMove(clientX, clientY) ==
    /\ WheelMounted
    /\ IF isDragging THEN updateAngle(clientX, clientY) ELSE UNCHANGED angle
    /\ lastEvent' = Event("mousemove", <<clientX, clientY>>)
    /\ UNCHANGED <<activeTab, isDragging, params, loopVars, axisVars>>

handleTouchMove(clientX, clientY) ==
    /\ WheelMounted
    /\ IF isDragging THEN updateAngle(clientX, clientY) ELSE UNCHANGED angle
    /\ lastEvent' = Event("touchmove", <<clientX, clientY>>)
    /\ UNCHANGED <<activeTab, isDragging, params, loopVars, axisVars>>

\* mouseup or touchend on the drawing: handleEnd, and the event then reaches
\* the window listener, which sets the same flag
handleEnd(type) ==
    /\ WheelMounted
    /\ type \in {"mouseup", "touchend"}
    /\ isDragging' = FALSE
    /\ lastEvent' = Event(type, <<"svg">>)
    /\ UNCHANGED <<activeTab, angle, params, loopVars, axisVars>>

\* a release outside the drawing with no listener on the window
handleGlobalEndUnheard(type) ==
    /\ WheelMounted
    /\ type \in {"mouseup", "touchend"}
    /\ lastEvent' = Event(type, <<"window">>)
    /\ UNCHANGED <<activeTab, angle, isDragging, params, loopVars, axisVars>>

\* mouseup or touchend outside the drawing: the window listener alone
handleGlobalEnd(type) ==
    /\ WheelMounted
    /\ type \in {"mouseup", "touchend"}
    /\ isDragging' = FALSE
    /\ lastEvent' = Event(type, <<"window">>)
    /\ UNCHANGED <<activeTab, angle, params, loopVars, axisVars>>

handleDegreeChange(text) ==
    /\ WheelMounted
    /\ LET val == parseFloat(text)
       IN  IF ~isNaN(val)
           THEN angle' = angleFromDegrees(val.val)
           ELSE UNCHANGED angle
    /\ lastEvent' = Event("degree", text)
    /\ UNCHANGED <<activeTab, isDragging, params, loopVars, axisVars>>

---------------------------------------------------------------------------
(* FunctionPlotter.                                                        *)

defaultParams == [A |-> 1 * Scale, omega |-> 1 * Scale, phi |-> 0, k |-> 0]

Fields == {"A", "omega", "phi", "k"}

\* the number of steps of the sampling loop
Resolution == 200

\* start = -2 * Math.PI
SampleStart == FNeg(TwoMathPI)

\* end = 2 * Math.PI
SampleEnd == TwoMathPI

\* a step of half the resolution
SampleStepCoarse == FDivSmall(FSub(SampleEnd, SampleStart), Resolution \div 2)

\* step = (end - start) / 200
SampleStep == FDivSmall(FSub(SampleEnd, SampleStart), Resolution)

\* the angle of the i-th abscissa (i from 0): start + i * step without the
\* rounding of the loop, which stays below 2^-45 and far below the table's
\* resolution
SampleAngle(i) == -(2 * PI) + i * ((4 * PI) \div Resolution)

\* the phase without the shift phi
PhaseNoShift(p, a) == (p.omega * (a \div 100)) \div 10

\* params.omega * x + params.phi * Math.PI, as an angle; omega is a multiple
\* of 0.1 in the model, so that the phase is a multiple of PI / 1000
Phase(p, a) == (p.omega * (a \div 100)) \div 10 + p.phi * (PI \div Scale)

\* parseFloat((A * s + k).toFixed(3)), in thousandths, for a sine s in units
\* of 10^-8; the sum is kept exact, A * s + k = (y8 + f / 1000) / 10^8, and
\* rounded to nearest, a tie away from zero
WaveValue(A, s, k) ==
    LET sh == s \div 1000
        sl == s % 1000
        lo == A * sl
        y8 == A * sh + lo \div 1000 + k * (TrigScale \div Scale)
        f  == lo % 1000
        half == TrigScale \div (2 * Scale)
        unit == TrigScale \div Scale
    IN  IF y8 >= 0 THEN (y8 + half) \div unit
        ELSE IF f = 0 THEN -((half - y8) \div unit)
        ELSE -((half - 1 - y8) \div unit)

\* the point pushed for the double xVal, the i-th abscissa (i from 0)
Point(p, xVal, i) ==
    LET a == SampleAngle(i)
    IN  [xVal |-> xVal,
         y |-> WaveValue(p.A, MathSin(Phase(p, a)), p.k),
         standard |-> ToFixed(MathSin(a), TrigScale, 3)]

\* for (let x = start; x <= end; x += step) { points.push(...) }: one turn
LoopBody ==
    /\ pc = "loop"
    /\ FLeq(x, SampleEnd)
    /\ points' = Append(points, Point(params, x, Len(points)))
    /\ x' = FAdd(x, SampleStep)
    /\ UNCHANGED <<uiVars, pc, axisVars>>

\* the exit of the loop: return points
LoopExit ==
    /\ pc = "loop"
    /\ ~FLeq(x, SampleEnd)
    /\ pc' = "done"
    /\ UNCHANGED <<uiVars, x, points, axisVars>>

\* the texts typed into the number fields
ParamTexts == { <<>>, <<"2">>, <<"0", ".", "5">>, <<"1">> }

\* the values the sliders deliver (a range input always holds a number of
\* its range, on its step)
SliderTexts ==
    [A     |-> { <<"5">> },
     omega |-> { <<"0", ".", "1">> },
     phi   |-> { <<"-", "2">>, <<"0", ".", "1", "2", "5">> },
     k     |-> { <<"-", "3">> }]

PlotterMounted == activeTab = FUNCTION_PLOTTER

\* parseFloat(e.target.value) || 0
ParseOrZero(text) ==
    LET v == parseFloat(text)
    IN  IF isNaN(v) \/ v.val = 0 THEN 0 ELSE v.val

\* a number input that spreads the default parameters, not the current ones
NumberFieldChangeFromDefaults(f, text) ==
    /\ PlotterMounted
    /\ params' = [defaultParams EXCEPT ![f] = ParseOrZero(text)]
    /\ lastEvent' = Event("number", <<f>>)
    /\ UNCHANGED <<activeTab, angle, isDragging, loopVars, axisVars>>

\* onChange of the number input of field f
NumberFieldChange(f, text) ==
    /\ PlotterMounted
    /\ params' = [params EXCEPT ![f] = ParseOrZero(text)]
    /\ lastEvent' = Event("number", <<f>>)
    /\ UNCHANGED <<activeTab, angle, isDragging, loopVars, axisVars>>

\* onChange of the range input of field f
SliderChange(f, text) ==
    /\ PlotterMounted
    /\ params' = [params EXCEPT ![f] = parseFloat(text).val]
    /\ lastEvent' = Event("slider", <<f>>)
    /\ UNCHANGED <<activeTab, angle, isDragging, loopVars, axisVars>>

\* a reset that keeps the vertical shift
handleResetKeepK ==
    /\ PlotterMounted
    /\ params' = [defaultParams EXCEPT !.k = params.k]
    /\ lastEvent' = Event("reset", params)
    /\ UNCHANGED <<activeTab, angle, isDragging, loopVars, axisVars>>

\* the event records the parameters the reset replaced
handleReset ==
    /\ PlotterMounted
    /\ params' = defaultParams
    /\ lastEvent' = Event("reset", params)
    /\ UNCHANGED <<activeTab, angle, isDragging, loopVars, axisVars>>

\* one axis tick is PI / TickUnit
TickUnit == 2^10

\* a guard with the tolerance 0.3, under which neighbouring guards overlap
NearWide(t, target) == 10 * Abs(t - target) < 3 * TickUnit

\* Math.abs(piVal - target) < 0.01, for piVal = t / TickUnit and a target
\* given in the same unit
Near(t, target) == 100 * Abs(t - target) < TickUnit

\* piVal.toFixed(1) followed by the pi character (written "pi")
CoefficientLabel(t) ==
    LET n == ToFixed(Abs(t), TickUnit, 1)
    IN  (IF t < 0 THEN "-" ELSE "") \o NatStr(n \div 10) \o "."
          \o DigitStr(n % 10) \o "pi"

\* the label without the two half-pi cases
formatXAxisNoHalves(t) ==
    IF Near(t, 0) THEN "0"
    ELSE IF Near(t, TickUnit) THEN "pi"
    ELSE IF Near(t, -TickUnit) THEN "-pi"
    ELSE IF Near(t, 2 * TickUnit) THEN "2pi"
    ELSE IF Near(t, -2 * TickUnit) THEN "-2pi"
    ELSE CoefficientLabel(t)

formatXAxis(t) ==
    IF Near(t, 0) THEN "0"
    ELSE IF Near(t, TickUnit) THEN "pi"
    ELSE IF Near(t, -TickUnit) THEN "-pi"
    ELSE IF Near(t, 2 * TickUnit) THEN "2pi"
    ELSE IF Near(t, -2 * TickUnit) THEN "-2pi"
    ELSE IF Near(t, TickUnit \div 2) THEN "pi/2"
    ELSE IF Near(t, -(TickUnit \div 2)) THEN "-pi/2"
    ELSE CoefficientLabel(t)

\* the chart asks for the label of the tick; "" is a label not yet made
TickFormat ==
    /\ tickLabel = ""
    /\ tickLabel' = formatXAxis(tick)
    /\ UNCHANGED <<uiVars, loopVars, tick>>

---------------------------------------------------------------------------
(* App: one of the two components is mounted; a change of tab unmounts it  *)
(* and mounts the other in its initial state.                              *)

setActiveTab(t) ==
    /\ activeTab' = t
    /\ IF t = activeTab
       THEN UNCHANGED <<angle, isDragging, params>>
       ELSE /\ angle' = InitialAngle
            /\ isDragging' = FALSE
            /\ params' = defaultParams
    /\ lastEvent' = Event("tab", <<t>>)
    /\ UNCHANGED <<loopVars, axisVars>>

Init ==
    /\ activeTab = FERRIS_WHEEL
    /\ angle = InitialAngle
    /\ isDragging = FALSE
    /\ params = defaultParams
    /\ lastEvent = Event("mount", <<>>)
    /\ x = SampleStart
    /\ points = <<>>
    /\ pc = "idle"
    /\ tick = 0
    /\ tickLabel = ""

Next ==
    \/ handleMouseDown
    \/ handleTouchStart
    \/ \E clientX \in ClientXs, clientY \in ClientYs : handleMouseMove(clientX, clientY)
    \/ \E clientX \in ClientXs, clientY \in ClientYs : handleTouchMove(clientX, clientY)
    \/ \E type \in {"mouseup", "touchend"} : handleEnd(type)
    \/ \E type \in {"mouseup", "touchend"} : handleGlobalEnd(type)
    \/ \E text \in DegreeTexts : handleDegreeChange(text)
    \/ \E f \in Fields, text \in ParamTexts : NumberFieldChange(f, text)
    \/ \E f \in Fields : \E text \in SliderTexts[f] : SliderChange(f, text)
    \/ handleReset
    \/ \E t \in {FERRIS_WHEEL, FUNCTION_PLOTTER} : setActiveTab(t)

Spec == Init /\ [][Next]_vars

\* the computation of data (useMemo), for the parameters of the bound
SampleParams ==
    [A : {1 * Scale, 2 * Scale, -Scale \div 2}, omega : {1 * Scale, Scale \div 10, 0},
     phi : {0, Scale \div 2, -Scale \div 8}, k : {0, 1 * Scale}]

InitSample ==
    /\ activeTab = FUNCTION_PLOTTER
    /\ angle = InitialAngle
    /\ isDragging = FALSE
    /\ params \in SampleParams
    /\ lastEvent = Event("mount", <<>>)
    /\ x = SampleStart
    /\ points = <<>>
    /\ pc = "loop"
    /\ tick = 0
    /\ tickLabel = ""

NextSample == LoopBody \/ LoopExit

SpecSample == InitSample /\ [][NextSample]_vars

\* the label function alone, applied to each tick of the bound
InitAxis ==
    /\ activeTab = FUNCTION_PLOTTER
    /\ angle = InitialAngle
    /\ isDragging = FALSE
    /\ params = defaultParams
    /\ lastEvent = Event("mount", <<>>)
    /\ x = SampleStart
    /\ points = <<>>
    /\ pc = "idle"
    /\ tick \in -MaxTick .. MaxTick
    /\ tickLabel = ""

NextAxis == TickFormat

SpecAxis == InitAxis /\ [][NextAxis]_vars

\* the degree field alone: the field shows displayDegrees of the angle, and
\* entering the shown number stores angleFromDegrees of it
DegreeRoundTrip ==
    /\ lastEvent.op = "mount"
    /\ angle' = angleFromDegrees(displayDegrees(angle))
    /\ lastEvent' = Event("roundtrip", <<angle>>)
    /\ UNCHANGED <<activeTab, isDragging, params, x, points, pc, tick, tickLabel>>

\* the angles of the bound, in hundredths of a degree: MaxTurns revolutions
\* below zero and MaxTurns beyond the first one
AngleInputs ==
    {10 * n : n \in -(MaxTurns * 36000) .. ((MaxTurns + 1) * 36000 - 1)}

InitAngle ==
    /\ activeTab = FERRIS_WHEEL
    /\ angle \in AngleInputs
    /\ isDragging = FALSE
    /\ params = defaultParams
    /\ lastEvent = Event("mount", <<>>)
    /\ x = SampleStart
    /\ points = <<>>
    /\ pc = "idle"
    /\ tick = 0
    /\ tickLabel = ""

NextAngle == DegreeRoundTrip

SpecAngle == InitAngle /\ [][NextAngle]_vars

---------------------------------------------------------------------------
(* Properties.                                                             *)

\* a pointer move that updated the angle: the handler ran during a drag
PointerUpdated ==
    /\ lastEvent.op \in {"mousemove", "touchmove"}
    /\ isDragging

\* the pointer of the last move, relative to the centre of the wheel, in
\* screen coordinates (right and down positive)
PointerRight == lastEvent.arg[1] - (rect.left + CENTER.x)

PointerDown == lastEvent.arg[2] - (rect.top + CENTER.y)

\* C1: for every numeric input field (the degree field, and the A, omega,
\* phi and k number fields), an entered text that does not parse to a number
\* is discarded: the angle and the parameters keep their values.
C1_InvalidEntryDiscarded ==
    [][ ( \/ \E text \in DegreeTexts :
               isNaN(parseFloat(text)) /\ handleDegreeChange(text)
          \/ \E f \in Fields, text \in ParamTexts :
               isNaN(parseFloat(text)) /\ NumberFieldChange(f, text) )
        => (angle' = angle /\ params' = params) ]_vars

\* the exact difference of two doubles of the loop that are one step apart
\* (it has at most 53 bits, so the subtraction does not round)
Difference(u, v) == FSub(u, v)

\* |u - v| as a magnitude
Distance(u, v) == Difference(u, v).mag

\* the slack of the amended C2, in units of 2^-56: one rounding of a sum in
\* [4, 8), and the rounding accumulated over the loop
StepTolerance == <<0, 0, 2^5>>

EndTolerance == <<0, 0, 2^11>>

\* C2 (as claimed): sampling the default domain returns exactly 201 points for
\* every value of the parameters; the first has x = -2 PI, the last has
\* x = 2 PI, and consecutive x differ by 4 PI / 200.
C2_ExactAbscissas ==
    pc = "done" =>
        /\ Len(points) = 201
        /\ points[1].xVal = SampleStart
        /\ points[Len(points)].xVal = SampleEnd
        /\ \A i \in 1 .. Len(points) - 1 :
               Difference(points[i + 1].xVal, points[i].xVal) = SampleStep

\* C2 (amended): sampling the default domain returns exactly 201 points for
\* every value of the parameters; the first has x = -2 PI exactly; x is
\* accumulated in floating point, so that consecutive x differ by 4 PI / 200
\* up to one rounding (2^-51), and the last x is not above 2 PI and within
\* 2^-45 of it.
C2_RoundedAbscissas ==
    pc = "done" =>
        /\ Len(points) = 201
        /\ points[1].xVal = SampleStart
        /\ FLeq(points[Len(points)].xVal, SampleEnd)
        /\ ~NatLess(EndTolerance, Distance(SampleEnd, points[Len(points)].xVal))
        /\ \A i \in 1 .. Len(points) - 1 :
               ~NatLess(StepTolerance,
                        Distance(Difference(points[i + 1].xVal, points[i].xVal),
                                 SampleStep))

\* the loop has ended, and its last abscissa is not the end of the domain
C2_Witness ==
    /\ pc = "done"
    /\ Len(points) = 201
    /\ points[Len(points)].xVal # SampleEnd


\* C3: the colour classifies [0, 2 PI) into the four half-open quarters
\* [0, PI/2), [PI/2, PI), [PI, 3PI/2), [3PI/2, 2PI), each boundary belonging
\* to the quarter it starts; an angle outside [0, 2 PI) gets the quarter of
\* the angle reduced into [0, 2 PI).
C3_Quadrants ==
    LET r == angle % TWO_PI
        colour == getQuadrantColor(angle)
    IN  /\ (0 <= r /\ 2 * r < PI) <=> colour = "text-emerald-600"
        /\ (PI <= 2 * r /\ r < PI) <=> colour = "text-blue-600"
        /\ (PI <= r /\ 2 * r < 3 * PI) <=> colour = "text-orange-600"
        /\ (3 * PI <= 2 * r /\ r < TWO_PI) <=> colour = "text-rose-600"

\* a negative angle that reduces to the boundary PI/2
C3_Witness ==
    /\ angle < 0
    /\ angle % TWO_PI = PI \div 2
    /\ getQuadrantColor(angle) = "text-blue-600"

\* C4: the tan cell shows the infinity symbol if and only if |cos| < 0.001;
\* otherwise it shows the number sin / cos (to four decimals).
C4_Tangent ==
    LET cell == tanCell(angle)
    IN  /\ cell.kind = "infinity" <=> Abs(MathCos(angle)) < TrigScale \div 1000
        /\ cell.kind # "infinity" =>
               /\ cell.kind = "number"
               /\ cell.val = ToFixed(MathSin(angle), MathCos(angle), 4)

\* an angle whose cosine is not zero but below the threshold
C4_Witness ==
    /\ MathCos(angle) # 0
    /\ Abs(MathCos(angle)) < TrigScale \div 1000
    /\ tanCell(angle).kind = "infinity"

\* C5: the angle stored by a pointer update lies in [0, 2 PI): a negative
\* arctangent has 2 PI added once, any other is kept; a pointer at the centre
\* gives the angle 0.
C5_PointerAngleRange ==
    PointerUpdated =>
        LET arctangent == MathAtan2(-PointerDown, PointerRight)
        IN  /\ 0 <= angle /\ angle < TWO_PI
            /\ arctangent < 0 => angle = arctangent + TWO_PI
            /\ arctangent >= 0 => angle = arctangent
            /\ (PointerRight = 0 /\ PointerDown = 0) => angle = 0

\* a pointer update below the centre: the arctangent was negative
C5_Witness ==
    /\ PointerUpdated
    /\ PointerDown > 0
    /\ angle > PI

\* C6: a pointer right of the centre gives the angle 0, one above the centre
\* (smaller screen y) PI/2, one left of it PI, one below it 3PI/2.
C6_AxisDirections ==
    PointerUpdated =>
        /\ (PointerRight > 0 /\ PointerDown = 0) => angle = 0
        /\ (PointerRight = 0 /\ PointerDown < 0) => 2 * angle = PI
        /\ (PointerRight < 0 /\ PointerDown = 0) => angle = PI
        /\ (PointerRight = 0 /\ PointerDown > 0) => 2 * angle = 3 * PI

\* a pointer update directly above the centre
C6_Witness ==
    /\ PointerUpdated
    /\ PointerRight = 0
    /\ PointerDown < 0

\* C7: after any sequence of parameter edits, a reset leaves the parameters
\* equal to A = 1, omega = 1, phi = 0, k = 0.
C7_ResetToDefaults ==
    lastEvent.op = "reset" =>
        params = [A |-> 1 * Scale, omega |-> 1 * Scale, phi |-> 0, k |-> 0]

\* a reset that replaced parameters all four of which had been edited
C7_Witness ==
    /\ lastEvent.op = "reset"
    /\ lastEvent.arg.A # 1 * Scale
    /\ lastEvent.arg.omega # 1 * Scale
    /\ lastEvent.arg.phi # 0
    /\ lastEvent.arg.k # 0

\* label is the coefficient t / PI written with one decimal and followed by
\* the pi character: the nearest number of tenths, either one at a tie
OneDecimalLabel(label, t) ==
    \E tenths \in 0 .. 10 * (MaxTick \div TickUnit + 2) :
        /\ 2 * Abs(10 * Abs(t) - tenths * TickUnit) <= TickUnit
        /\ label = (IF t < 0 THEN "-" ELSE "") \o NatStr(tenths \div 10)
                     \o "." \o NatStr(tenths % 10) \o "pi"

\* tick / PI is within 0.01 of n / 2
WithinTolerance(t, n) == 200 * Abs(2 * t - n * TickUnit) < 4 * TickUnit

\* C8: the label of x is "0" within the tolerance 0.01 (on x / PI) of zero,
\* then "pi", "-pi", "2pi", "-2pi", "pi/2", "-pi/2" within it of that multiple
\* of PI, the checks made in that order; any other x gets its coefficient
\* x / PI to one decimal followed by pi.  The labels of PI, 0 and 3 PI are
\* "pi", "0" and "3.0pi".
C8_AxisLabel ==
    tickLabel # "" =>
        /\ IF WithinTolerance(tick, 0) THEN tickLabel = "0"
           ELSE IF WithinTolerance(tick, 2) THEN tickLabel = "pi"
           ELSE IF WithinTolerance(tick, -2) THEN tickLabel = "-pi"
           ELSE IF WithinTolerance(tick, 4) THEN tickLabel = "2pi"
           ELSE IF WithinTolerance(tick, -4) THEN tickLabel = "-2pi"
           ELSE IF WithinTolerance(tick, 1) THEN tickLabel = "pi/2"
           ELSE IF WithinTolerance(tick, -1) THEN tickLabel = "-pi/2"
           ELSE OneDecimalLabel(tickLabel, tick)
        /\ tick = TickUnit => tickLabel = "pi"
        /\ tick = 0 => tickLabel = "0"
        /\ tick = 3 * TickUnit => tickLabel = "3.0pi"

\* the label of 3 PI has been made
C8_Witness ==
    /\ tick = 3 * TickUnit
    /\ tickLabel = "3.0pi"

\* C9: for an angle in [0, 2 PI), the angle of its displayed degrees differs
\* from it by at most 0.1 degree, the displayed degrees being the degrees
\* rounded to one decimal.
C9_DegreeRoundTrip ==
    (lastEvent.op = "roundtrip" /\ 0 <= lastEvent.arg[1]
         /\ lastEvent.arg[1] < TWO_PI) =>
        /\ 1800 * Abs(angle - lastEvent.arg[1]) <= PI
        /\ \E tenths \in 0 .. 3600 :
               /\ angle = angleFromDegrees(tenths * (Scale \div 10))
               /\ 20 * Abs(angle - lastEvent.arg[1]) <= PI \div 180

\* an angle in [0, 2 PI) that the rounding changed
C9_Witness ==
    /\ lastEvent.op = "roundtrip"
    /\ 0 <= lastEvent.arg[1] /\ lastEvent.arg[1] < TWO_PI
    /\ angle # lastEvent.arg[1]

\* the sine of omega * x + phi * PI at the i-th abscissa (i from 0); omega
\* is in thousandths and the abscissas are multiples of 4 PI / 200
SineAt(i) ==
    MathSin((params.omega * (i - 100) * 36) \div 10 + params.phi * 180)

\* C10: every sample carries transformedY = A sin(omega x + phi PI) + k and
\* referenceY = sin(x), each rounded to three decimals, for the current
\* parameters; for A = 2, omega = 1, phi = 0.5, k = 1 the sample at x = 0
\* has transformedY = 3, and for the default parameters the first sample
\* and the sample at x = 0 have transformedY = 0.
C10_SampleValues ==
    pc = "done" =>
        /\ \A i \in 1 .. Len(points) :
               /\ points[i].y = WaveValue(params.A, SineAt(i - 1), params.k)
               /\ points[i].standard
                    = ToFixedRound(MathSin((i - 101) * 3600), TrigScale \div Scale)
        /\ params = [A |-> 2 * Scale, omega |-> 1 * Scale, phi |-> Scale \div 2,
                     k |-> 1 * Scale]
             => points[101].y = 3 * Scale
        /\ params = [A |-> 1 * Scale, omega |-> 1 * Scale, phi |-> 0, k |-> 0]
             => (points[1].y = 0 /\ points[101].y = 0)

\* the data of A = 2, omega = 1, phi = 0.5, k = 1 has been computed
C10_Witness ==
    /\ pc = "done"
    /\ params = [A |-> 2 * Scale, omega |-> 1 * Scale, phi |-> Scale \div 2,
                 k |-> 1 * Scale]
    /\ points[101].y = 3 * Scale

\* C11: a mouse move or touch move handled while no drag is in progress
\* (before any mouse down or touch start, or after a release) leaves the
\* angle unchanged; a mouse down or touch start starts the drag and leaves
\* the angle unchanged.
C11_MoveOnlyDuringDrag ==
    [][ /\ ( /\ ~isDragging
             /\ lastEvent'.op \in {"mousemove", "touchmove"}
             /\ \/ handleMouseMove(lastEvent'.arg[1], lastEvent'.arg[2])
                \/ handleTouchMove(lastEvent'.arg[1], lastEvent'.arg[2]) )
           => angle' = angle
        /\ (handleMouseDown \/ handleTouchStart)
           => (angle' = angle /\ isDragging') ]_vars

\* a move handled while no drag is in progress, after the angle has been
\* changed: the angle is not that of the pointer
C11_Witness ==
    /\ lastEvent.op \in {"mousemove", "touchmove"}
    /\ ~isDragging
    /\ angle # InitialAngle
    /\ angle # angleFromPointer(lastEvent.arg[1], lastEvent.arg[2])

\* C12: after a mouse up or touch end, on the drawing or on the window, the
\* dragging flag is false; it becomes true again only by a mouse down or a
\* touch start, and until then a pointer move leaves the angle unchanged.
C12_ReleaseEndsDrag ==
    [][ /\ (\E type \in {"mouseup", "touchend"} :
                handleEnd(type) \/ handleGlobalEnd(type))
           => ~isDragging'
        /\ (~isDragging /\ isDragging')
           => lastEvent'.op \in {"mousedown", "touchstart"}
        /\ ( /\ lastEvent.op \in {"mouseup", "touchend"}
             /\ lastEvent'.op \in {"mousemove", "touchmove"} )
           => angle' = angle ]_vars

\* a release outside the drawing has been handled, after the angle has been
\* changed, and no drag is in progress
C12_Witness ==
    /\ lastEvent.op \in {"mouseup", "touchend"}
    /\ lastEvent.arg = <<"window">>
    /\ ~isDragging
    /\ angle # InitialAngle

\* C13: an edit of A, omega, phi or k by its number field or its slider, with
\* a text that parses to a number, sets that field to the number and leaves
\* the other three parameters unchanged, after any earlier edits and resets.
C13_EditOwnFieldOnly ==
    [][ (PlotterMounted /\ lastEvent'.op \in {"number", "slider"}) =>
          \A f \in {lastEvent'.arg[1]} : \A text \in ParamTexts \cup SliderTexts[f] :
            ( /\ ~isNaN(parseFloat(text))
              /\ (NumberFieldChange(f, text) \/ SliderChange(f, text)) )
            => /\ params'[f] = parseFloat(text).val
               /\ \A g \in Fields \ {f} : params'[g] = params[g] ]_vars

\* the slider of phi has been moved to -2 after edits of the other three
\* parameters, which keep their edited values
C13_Witness ==
    /\ lastEvent = Event("slider", <<"phi">>)
    /\ params.phi = -2 * Scale
    /\ params.A # defaultParams.A
    /\ params.omega # defaultParams.omega
    /\ params.k # defaultParams.k

\* the targets of the seven guards of formatXAxis, in the order of the
\* checks and in the unit of the ticks, and the label of each
GuardTargets ==
    << 0, TickUnit, -TickUnit, 2 * TickUnit, -2 * TickUnit,
       TickUnit \div 2, -(TickUnit \div 2) >>

GuardLabels == << "0", "pi", "-pi", "2pi", "-2pi", "pi/2", "-pi/2" >>

\* C14: the seven guards (targets 0, 1, -1, 2, -2, 0.5, -0.5 for x / PI, each
\* with the tolerance 0.01) are pairwise disjoint: at most one holds for any
\* x, so the label is that of the guard that holds, in whatever order the
\* guards are checked.
C14_GuardsDisjoint ==
    /\ \A i, j \in 1 .. Len(GuardTargets) :
           (Near(tick, GuardTargets[i]) /\ Near(tick, GuardTargets[j])) => i = j
    /\ tickLabel # "" =>
           \A i \in 1 .. Len(GuardTargets) :
               Near(tick, GuardTargets[i]) => tickLabel = GuardLabels[i]

\* the label of a tick near PI/2, but not at it, has been made: the sixth
\* guard alone holds
C14_Witness ==
    /\ tick = TickUnit \div 2 + 5
    /\ Near(tick, GuardTargets[6])
    /\ tickLabel = "pi/2"

=============================================================================
